---- MODULE Spec2Model ----
(***************************************************************************)
(* A model of pkg/flasher/flash.go: one run of flasher.Flash, from source  *)
(* and device resolution through unmount, flash and verify.                *)
(*                                                                         *)
(* Strings the code inspects (typed answers) are sequences of one-letter   *)
(* strings, so that Atoi, ToLower, TrimSpace and HasPrefix are computed.   *)
(* The external collaborators (prompt, device enumeration, image opener,   *)
(* directory scan, umount, the device file, the progress copier) answer    *)
(* nondeterministically at the moment the code calls them.                 *)
(***************************************************************************)
EXTENDS Integers, Sequences, FiniteSets, TLC

\* ---------------------------------------------------------------- bounds

\* Longest enumeration of detachable devices.
MaxDevices == 3
\* Longest list of image files found in the current directory.
MaxFiles == 2
\* Largest modification time of a candidate file.
MaxTime == 2
\* Longest image, in bytes.
MaxImageLen == 3
\* Largest chunk the progress copier moves in one read/write.
ChunkSize == 2
\* Size of the block device, in bytes.
DevSize == 4

Byte == {0, 1}

VARIABLES
    config,       \* FlashConfig: Image, Device, NotInteractive, Verify
    pc,           \* position of the run inside Flash
    result,       \* what Flash returned: "running", "nil", an error, "panic"
    log,          \* the side effects of the run, in order
    potentials,   \* getSource: the files the directory scan returned
    chosen,       \* getSource: the file name selected
    input,        \* the image stream: state, closes, bytes read so far
    detachables,  \* getDevice: the enumeration
    answer,       \* the last reply of ui.Ask, as the code holds it
    dev,          \* the resolved device (NoDevice before)
    mounted,      \* the mountpoints of the system still mounted
    mnt,          \* unmount: index of the next mountpoint
    output,       \* flash: the device handle: "none", "open", "closed"
    disk,         \* the bytes on the block device
    hasher,       \* the streaming digest state of the running copy
    total,        \* bytes the running copy has moved
    copyErr,      \* the error CopyWithProgress returned
    res,          \* FlashResult: Sum, BytesWritten (NoResult before)
    flashRet,     \* what flash returned as its error: "none", "nil", error
    vhandle,      \* verify: the device handle: "none", "open", "closed"
    corrupted,    \* the byte of the device the medium altered after the flash (0: none)
    vhasher,      \* verify: the streaming digest state of the read-back
    vread,        \* verify: bytes read back so far
    vErr,         \* verify: the error CopyWithProgress returned
    verifyRet     \* what verify returned: "none", "nil", error

vars == <<config, pc, result, log, potentials, chosen, input, detachables,
          answer, dev, mounted, mnt, output, disk, hasher, total, copyErr,
          res, flashRet, vhandle, corrupted, vhasher, vread, vErr, verifyRet>>

\* ------------------------------------------------------- string helpers

Digits == <<"0", "1", "2", "3", "4", "5", "6", "7", "8", "9">>

IsDigit(c) == \E i \in 1..10 : Digits[i] = c

DigitVal(c) == (CHOOSE i \in 1..10 : Digits[i] = c) - 1

RECURSIVE DigitsVal(_)
DigitsVal(s) ==
    IF s = <<>> THEN 0
    ELSE DigitsVal(SubSeq(s, 1, Len(s) - 1)) * 10 + DigitVal(s[Len(s)])

\* strconv.Atoi: an optional sign, then one or more decimal digits.
Atoi(s) ==
    LET signed == s # <<>> /\ s[1] \in {"+", "-"}
        body == IF signed THEN Tail(s) ELSE s
        good == body # <<>> /\ \A i \in 1..Len(body) : IsDigit(body[i])
    IN  IF ~good THEN [err |-> "NumError", val |-> 0]
        ELSE [err |-> "nil",
              val |-> IF signed /\ s[1] = "-" THEN 0 - DigitsVal(body)
                      ELSE DigitsVal(body)]

LowerChar(c) ==
    CASE c = "Y" -> "y"
      [] c = "E" -> "e"
      [] c = "S" -> "s"
      [] c = "N" -> "n"
      [] c = "O" -> "o"
      [] OTHER -> c

ToLower(s) == [i \in 1..Len(s) |-> LowerChar(s[i])]

IsSpace(c) == c \in {" ", "\t", "\n"}

RECURSIVE TrimLeft(_)
TrimLeft(s) ==
    IF s # <<>> /\ IsSpace(s[1]) THEN TrimLeft(Tail(s)) ELSE s

RECURSIVE TrimRight(_)
TrimRight(s) ==
    IF s # <<>> /\ IsSpace(s[Len(s)])
    THEN TrimRight(SubSeq(s, 1, Len(s) - 1)) ELSE s

TrimSpace(s) == TrimRight(TrimLeft(s))

\* strings.HasPrefix(s, prefix)
HasPrefix(s, prefix) ==
    Len(prefix) <= Len(s) /\ SubSeq(s, 1, Len(prefix)) = prefix

\* The decimal text of a small number, as a user types it.
Typed(n) == IF n < 10 THEN <<Digits[n + 1]>>
            ELSE <<Digits[(n \div 10) + 1], Digits[(n % 10) + 1]>>

\* ------------------------------------------------------ the environment

NoAnswer == <<"<none>">>

\* What ui.Ask can give back: an error, or a typed line.
MenuAnswers ==
    {Typed(n) : n \in 0..(MaxDevices + 2)}
        \cup {<<>>, <<"a">>, <<"-", "1">>, <<"+", "1">>, <<"1", "x">>, <<" ", "1">>}

ConfirmAnswers ==
    {<<"y">>, <<"y", "e", "s">>, <<"Y", "E", "S">>, <<" ", "Y", "e", " ">>,
     <<>>, <<" ">>, <<"n">>, <<"n", "o">>, <<"y", "e", "s", "s">>, <<"e", "s">>}

Reply(err, text) == [err |-> err, text |-> text]

MenuReplies == {Reply("AskError", NoAnswer)} \cup {Reply("nil", a) : a \in MenuAnswers}

ConfirmReplies ==
    {Reply("AskError", NoAnswer)} \cup {Reply("nil", a) : a \in ConfirmAnswers}

\* The detachable devices of the machine, with their mountpoints.
DevNames == <<"/dev/sdb", "/dev/sdc", "/dev/sdd", "/dev/sde", "/dev/sdf">>

Mounts(i) ==
    CASE i = 1 -> <<"/mnt/a">>
      [] i = 2 -> <<"/mnt/x", "/mnt/y", "/mnt/z">>
      [] OTHER -> <<>>

Device(i) == [Device |-> DevNames[i], Name |-> "disk", Mountpoints |-> Mounts(i)]

NoDevice == [Device |-> "", Name |-> "", Mountpoints |-> <<>>]

\* utils.GetDetachableDevices: any run of consecutive devices, or none.
Enumerations ==
    {<<>>} \cup
    {[k \in 1..(b - a + 1) |-> Device(a + k - 1)] :
        a \in 1..MaxDevices, b \in 1..MaxDevices}

AllMountpoints ==
    UNION {{Mounts(i)[k] : k \in 1..Len(Mounts(i))} : i \in 1..Len(DevNames)}

FileNames == <<"a.img", "b.img", "c.img", "d.img">>

\* One candidate file: its modification time and whether os.Stat succeeds.
FileInfo == [ModTime : 1..MaxTime, statOk : BOOLEAN]

File(i, info) == [name |-> FileNames[i], ModTime |-> info.ModTime, statOk |-> info.statOk]

\* imageutils.GetImageFilesInCurrentDir, with what os.Stat says of each file.
ScanResults ==
    UNION {{[i \in 1..n |-> File(i, infos[i])] : infos \in [1..n -> FileInfo]} :
            n \in 0..MaxFiles}

Ev(op, arg) == [op |-> op, arg |-> arg]

\* The log with one more event; a run of the same event (the writes of one
\* copy, the reads of one read-back) is logged once.
Logged(l, e) == IF l # <<>> /\ l[Len(l)] = e THEN l ELSE Append(l, e)

\* ------------------------------------------------------ source selection

\* Mutant of MostRecentFrom: a later file replaces the choice on an equal time.
RECURSIVE MostRecentFromLast(_, _, _, _)
MostRecentFromLast(files, i, max, maxModified) ==
    IF i > Len(files) THEN [err |-> "nil", name |-> max]
    ELSE IF ~files[i].statOk THEN [err |-> "StatError", name |-> ""]
    ELSE IF max = "" \/ maxModified <= files[i].ModTime
         THEN MostRecentFromLast(files, i + 1, files[i].name, files[i].ModTime)
    ELSE MostRecentFromLast(files, i + 1, max, maxModified)

\* getMostRecent: the loop over the files from index i on, with the running
\* maximum (max = "" while none was seen).
RECURSIVE MostRecentFrom(_, _, _, _)
MostRecentFrom(files, i, max, maxModified) ==
    IF i > Len(files) THEN [err |-> "nil", name |-> max]
    ELSE IF ~files[i].statOk THEN [err |-> "StatError", name |-> ""]
    ELSE IF max = "" THEN MostRecentFrom(files, i + 1, files[i].name, files[i].ModTime)
    ELSE IF maxModified < files[i].ModTime
         THEN MostRecentFrom(files, i + 1, files[i].name, files[i].ModTime)
    ELSE MostRecentFrom(files, i + 1, max, maxModified)

getMostRecent(files) == MostRecentFrom(files, 1, "", 0)

\* Mutant of Choose: a number past the menu takes the last file.
ChooseClamped(files, reply) ==
    IF reply.err # "nil" THEN [err |-> reply.err, name |-> ""]
    ELSE LET index == Atoi(reply.text)
         IN  IF index.err # "nil" THEN [err |-> index.err, name |-> ""]
             ELSE IF index.val <= 0 THEN [err |-> "InvalidSelection", name |-> ""]
             ELSE [err |-> "nil",
                   name |-> files[IF index.val > Len(files) THEN Len(files)
                                  ELSE index.val].name]

\* Choose: the reply of ui.Ask parsed and checked against the menu.
Choose(files, reply) ==
    IF reply.err # "nil" THEN [err |-> reply.err, name |-> ""]
    ELSE LET index == Atoi(reply.text)
         IN  IF index.err # "nil" THEN [err |-> index.err, name |-> ""]
             ELSE IF index.val <= 0 \/ index.val > Len(files)
                  THEN [err |-> "InvalidSelection", name |-> ""]
             ELSE [err |-> "nil", name |-> files[index.val].name]

\* ------------------------------------------------------ device selection

Found(d) == [err |-> "nil", dev |-> d]

Failed(e) == [err |-> e, dev |-> NoDevice]

\* getDevice, config.Device set: the first enumerated device with that path.
RECURSIVE FindFrom(_, _, _)
FindFrom(ds, path, i) ==
    IF i > Len(ds) THEN Failed("DeviceNotFound")
    ELSE IF ds[i].Device = path THEN Found(ds[i])
    ELSE FindFrom(ds, path, i + 1)

\* Mutant of SelectConfigured: the first device is taken whatever its path.
SelectConfiguredFirst(ds, path) == Found(ds[1])

SelectConfigured(ds, path) == FindFrom(ds, path, 1)

\* Mutant of SelectAuto: the first device is taken however many there are.
SelectAutoFirst(ds) == Found(ds[1])

\* getDevice, non-interactive: the only device, or none.
SelectAuto(ds) ==
    IF Len(ds) # 1 THEN Failed("AmbiguousDevice") ELSE Found(ds[1])

\* getDevice, interactive: the typed number decremented and checked; an index
\* that passes the check and is not one of the slice panics (index out of range).
SelectTyped(ds, reply) ==
    IF reply.err # "nil" THEN Failed(reply.err)
    ELSE LET n == Atoi(reply.text)
             i == n.val - 1
         IN  IF n.err # "nil" THEN Failed(n.err)
             ELSE IF i < 0 \/ i > Len(ds) THEN Failed("InvalidSelection")
             ELSE IF i >= Len(ds) THEN Failed("panic")
             ELSE Found(ds[i + 1])

\* Mutant of SelectDevice: the empty enumeration is not refused and the zero
\* device goes on.
SelectDeviceNoEmptyCheck(cfg, ds, reply) ==
    IF Len(ds) = 0 THEN Found(NoDevice)
    ELSE IF cfg.Device # "" THEN SelectConfigured(ds, cfg.Device)
    ELSE IF cfg.NotInteractive THEN SelectAuto(ds)
    ELSE SelectTyped(ds, reply)

\* getDevice past the enumeration.
SelectDevice(cfg, ds, reply) ==
    IF Len(ds) = 0 THEN Failed("NoDevicesFound")
    ELSE IF cfg.Device # "" THEN SelectConfigured(ds, cfg.Device)
    ELSE IF cfg.NotInteractive THEN SelectAuto(ds)
    ELSE SelectTyped(ds, reply)

\* Mutant of DeviceAsks: the menu is shown in non-interactive mode too.
DeviceAsksAlways(cfg, ds) == Len(ds) # 0 /\ cfg.Device = ""

\* Whether getDevice reaches its ui.Ask.
DeviceAsks(cfg, ds) == Len(ds) # 0 /\ cfg.Device = "" /\ ~cfg.NotInteractive

\* ------------------------------------------------------------ the digest

HashMod == 251

HashInit == 0

\* hash.Hash.Write of one chunk: every byte and its position count.
RECURSIVE HashWrite(_, _)
HashWrite(h, chunk) ==
    IF chunk = <<>> THEN h
    ELSE HashWrite((h * 3 + chunk[1] + 1) % HashMod, Tail(chunk))

\* hash.Hash.Sum(nil): a digest of fixed size, never empty.
HashSum(h) == <<h \div 16, h % 16>>

\* Mutant of BytesEqual: only the lengths are compared.
BytesEqualLen(a, b) == Len(a) = Len(b)

\* bytes.Equal
BytesEqual(a, b) == Len(a) = Len(b) /\ \A i \in 1..Len(a) : a[i] = b[i]

\* --------------------------------------------------------------- the run

NoResult == [Sum |-> <<>>, BytesWritten |-> 0]

NoReply == Reply("nil", NoAnswer)

Configs ==
    [Image : {"", "x.img"}, Device : {"", DevNames[2], "/dev/nope"},
     NotInteractive : BOOLEAN, Verify : BOOLEAN]

Init ==
    /\ config \in Configs
    /\ pc = "getSource"
    /\ result = "running"
    /\ log = <<>>
    /\ potentials = <<>>
    /\ chosen = ""
    /\ input = [state |-> "none", closes |-> 0]
    /\ detachables = <<>>
    /\ answer = NoAnswer
    /\ dev = NoDevice
    /\ mounted = AllMountpoints
    /\ mnt = 0
    /\ output = "none"
    /\ disk = [i \in 1..DevSize |-> 0]
    /\ hasher = HashInit
    /\ total = 0
    /\ copyErr = "none"
    /\ res = NoResult
    /\ flashRet = "none"
    /\ vhandle = "none"
    /\ corrupted = 0
    /\ vhasher = HashInit
    /\ vread = 0
    /\ vErr = "none"
    /\ verifyRet = "none"

\* image.Image.Close
Close(in) == [in EXCEPT !.state = "closed", !.closes = @ + 1]

\* Flash returns err; the deferred imageToFlash.Close() runs on the stream `in`.
ReturnFlash(in, err, events) ==
    /\ result' = err
    /\ pc' = "done"
    /\ input' = Close(in)
    /\ log' = log \o events \o <<Ev("close_image", "Flash")>>

\* getSource up to the selection of a file name.
SelectSource(cfg, files, reply) ==
    IF cfg.Image # "" THEN [err |-> "nil", name |-> cfg.Image]
    ELSE IF Len(files) = 0 THEN [err |-> "NoImageFound", name |-> ""]
    ELSE IF cfg.NotInteractive THEN getMostRecent(files)
    ELSE Choose(files, reply)

\* Whether getSource reaches Choose and its ui.Ask.
SourceAsks(cfg, files) == cfg.Image = "" /\ Len(files) # 0 /\ ~cfg.NotInteractive

\* Flash, lines 59-63: getSource, and the deferred Close once it succeeded.
GetSource ==
    /\ pc = "getSource"
    /\ \E files \in (IF config.Image # "" THEN {<<>>} ELSE ScanResults) :
       \E reply \in (IF SourceAsks(config, files) THEN MenuReplies ELSE {NoReply}) :
       \E openOk \in BOOLEAN :
          LET sel == SelectSource(config, files, reply)
              asked == IF SourceAsks(config, files)
                       THEN <<Ev("ask", "image")>> ELSE <<>>
              said == IF config.Image = "" /\ sel.err = "nil"
                      THEN <<Ev("say", "using image")>> ELSE <<>>
          IN  /\ potentials' = files
              /\ answer' = reply.text
              /\ chosen' = sel.name
              /\ IF sel.err # "nil"
                 THEN /\ result' = sel.err
                      /\ pc' = "done"
                      /\ log' = log \o asked
                      /\ input' = input
                 ELSE IF ~openOk
                 THEN /\ result' = "OpenImageError"
                      /\ pc' = "done"
                      /\ log' = log \o asked \o said \o <<Ev("open_image", "failed")>>
                      /\ input' = input
                 ELSE /\ result' = result
                      /\ pc' = "getDevice"
                      /\ log' = log \o asked \o said \o <<Ev("open_image", "ok")>>
                      /\ input' = [state |-> "open", closes |-> 0]
    /\ UNCHANGED <<config, detachables, dev, mounted, mnt, output, disk, hasher,
                   total, copyErr, res, flashRet, vhandle, corrupted, vhasher, vread, vErr, verifyRet>>

\* Flash, lines 65-68: getDevice. The locals of getSource are gone.
GetDevice ==
    /\ pc = "getDevice"
    /\ potentials' = <<>>
    /\ chosen' = ""
    /\ \E enumOk \in BOOLEAN :
       \E ds \in (IF enumOk THEN Enumerations ELSE {<<>>}) :
       \E reply \in (IF enumOk /\ DeviceAsks(config, ds) THEN MenuReplies ELSE {NoReply}) :
          LET sel == IF enumOk THEN SelectDevice(config, ds, reply)
                     ELSE Failed("EnumError")
              asked == IF enumOk /\ DeviceAsks(config, ds)
                       THEN <<Ev("ask", "device")>> ELSE <<>>
              events == <<Ev("enumerate", "")>> \o asked
          IN  /\ detachables' = ds
              /\ answer' = reply.text
              /\ dev' = sel.dev
              /\ IF sel.err # "nil"
                 THEN ReturnFlash(input, sel.err, events)
                 ELSE /\ pc' = "confirm"
                      /\ log' = log \o events
                      /\ UNCHANGED <<result, input>>
    /\ UNCHANGED <<config, mounted, mnt, output, disk, hasher, total, copyErr,
                   res, flashRet, vhandle, corrupted, vhasher, vread, vErr, verifyRet>>

\* Mutant of Confirmed: any answer confirms.
ConfirmedAlways(ans) == TRUE

\* The confirmation test of Flash, line 77, on the normalised answer.
Confirmed(ans) == HasPrefix(<<"y", "e", "s">>, ans)

\* Flash, lines 70-80: the announcement and, interactively, the confirmation.
\* The locals of getDevice are gone.
Confirm ==
    /\ pc = "confirm"
    /\ detachables' = <<>>
    /\ \E reply \in (IF config.NotInteractive THEN {NoReply} ELSE ConfirmReplies) :
          LET said == <<Ev("say", "going to flash")>>
              asked == IF config.NotInteractive THEN <<>> ELSE <<Ev("ask", "confirm")>>
              normal == TrimSpace(ToLower(reply.text))
          IN  IF config.NotInteractive
              THEN /\ answer' = NoAnswer
                   /\ pc' = "unmount"
                   /\ mnt' = 1
                   /\ log' = log \o said
                   /\ UNCHANGED <<result, input>>
              ELSE IF reply.err # "nil"
              THEN /\ answer' = NoAnswer
                   /\ mnt' = mnt
                   /\ ReturnFlash(input, reply.err, said \o asked)
              ELSE IF ~Confirmed(normal)
              THEN /\ answer' = normal
                   /\ mnt' = mnt
                   /\ ReturnFlash(input, "UserCanceled", said \o asked)
              ELSE /\ answer' = normal
                   /\ pc' = "unmount"
                   /\ mnt' = 1
                   /\ log' = log \o said \o asked
                   /\ UNCHANGED <<result, input>>
    /\ UNCHANGED <<config, potentials, chosen, dev, mounted, output, disk, hasher,
                   total, copyErr, res, flashRet, vhandle, corrupted, vhasher, vread, vErr, verifyRet>>

\* Mutant of UnmountStep: a failed umount is ignored and the loop carries on.
UnmountStepCarryOn ==
    /\ pc = "unmount"
    /\ mnt <= Len(dev.Mountpoints)
    /\ answer' = NoAnswer
    /\ LET mntpnt == dev.Mountpoints[mnt]
       IN  \E ok \in BOOLEAN :
              /\ mounted' = IF ok THEN mounted \ {mntpnt} ELSE mounted
              /\ mnt' = mnt + 1
              /\ log' = log \o <<Ev("say_unmount", mntpnt), Ev("umount", mntpnt)>>
    /\ UNCHANGED <<config, pc, result, input, potentials, chosen, detachables, dev,
                   output, disk, hasher, total, copyErr, res, flashRet, vhandle,
                   corrupted, vhasher, vread, vErr, verifyRet>>

\* unmount, lines 180-186: one iteration of the loop, the announcement and
\* then the umount command, which may fail. The answer's scope has ended.
UnmountStep ==
    /\ pc = "unmount"
    /\ mnt <= Len(dev.Mountpoints)
    /\ answer' = NoAnswer
    /\ LET mntpnt == dev.Mountpoints[mnt]
           events == <<Ev("say_unmount", mntpnt), Ev("umount", mntpnt)>>
       IN  \E ok \in BOOLEAN :
              IF ok
              THEN /\ mounted' = mounted \ {mntpnt}
                   /\ mnt' = mnt + 1
                   /\ log' = log \o events
                   /\ UNCHANGED <<pc, result, input>>
              ELSE /\ mounted' = mounted
                   /\ mnt' = mnt
                   /\ ReturnFlash(input, "UnmountError", events)
    /\ UNCHANGED <<config, potentials, chosen, detachables, dev, output, disk,
                   hasher, total, copyErr, res, flashRet, vhandle, corrupted, vhasher, vread, vErr, verifyRet>>

\* unmount, line 187, and Flash, lines 83-86: the loop is over, flash is called.
UnmountDone ==
    /\ pc = "unmount"
    /\ mnt > Len(dev.Mountpoints)
    /\ answer' = NoAnswer
    /\ pc' = "flash"
    /\ UNCHANGED <<config, result, log, potentials, chosen, input, detachables,
                   dev, mounted, mnt, output, disk, hasher, total, copyErr, res,
                   flashRet, vhandle, corrupted, vhasher, vread, vErr, verifyRet>>

\* flash, lines 197-213: the device is opened; on failure flash returns the
\* error (its deferred input.Close() runs) and Flash returns it.
FlashOpen ==
    /\ pc = "flash"
    /\ \E ok \in BOOLEAN :
          IF ok
          THEN /\ output' = "open"
               /\ hasher' = HashInit
               /\ total' = 0
               /\ pc' = "copy"
               /\ log' = log \o <<Ev("open_device", "flash")>>
               /\ UNCHANGED <<result, input, flashRet>>
          ELSE /\ flashRet' = "FlashError"
               /\ ReturnFlash(Close(input), "FlashError",
                              <<Ev("open_device", "flash"), Ev("close_image", "flash")>>)
               /\ UNCHANGED <<output, hasher, total>>
    /\ UNCHANGED <<config, potentials, chosen, detachables, answer, dev, mounted,
                   mnt, disk, copyErr, res, vhandle, corrupted, vhasher, vread, vErr, verifyRet>>

\* The chunks a reader with `left` bytes to give can return in one read.
Chunks(left) ==
    UNION {[1..n -> Byte] : n \in 1..(IF left < ChunkSize THEN left ELSE ChunkSize)}

\* The device with `chunk` written at byte offset `at`.
WriteAt(d, at, chunk) ==
    [i \in 1..Len(d) |->
        IF i > at /\ i <= at + Len(chunk) THEN chunk[i - at] ELSE d[i]]

\* io.MultiWriter(output, checksummer) when verifying, output alone otherwise:
\* the digest state after a chunk went to the device.
TeeHash(cfg, h, chunk) == IF cfg.Verify THEN HashWrite(h, chunk) ELSE h

\* flash, line 205, and verify, line 240: ctx := context.Background(). Its Done
\* never fires, whatever cancel requests the log `l` of the run holds.
CtxDone(l) == FALSE

\* utils.CopyWithProgress(ctx, ui, outputWriter, input), one chunk a step: the
\* context is looked at before each chunk; the image gives a chunk, its end, or
\* the copy ends with an I/O error (a failed read, or a failed write that left
\* the chunk unwritten).
CopyStep ==
    /\ pc = "copy"
    /\ \/ \E chunk \in Chunks(MaxImageLen - total) :
             /\ ~CtxDone(log)
             /\ total + Len(chunk) <= DevSize
             /\ disk' = WriteAt(disk, total, chunk)
             /\ hasher' = TeeHash(config, hasher, chunk)
             /\ total' = total + Len(chunk)
             /\ log' = Logged(log, Ev("write", ""))
             /\ UNCHANGED <<pc, copyErr>>
       \/ \E e \in (IF CtxDone(log) THEN {"Canceled"} ELSE {"nil", "IOError"}) :
             /\ copyErr' = e
             /\ pc' = "flashReturn"
             /\ UNCHANGED <<disk, hasher, total, log>>
    /\ UNCHANGED <<config, result, potentials, chosen, input, detachables, answer,
                   dev, mounted, mnt, output, res, flashRet, vhandle, corrupted, vhasher, vread, vErr, verifyRet>>

\* Mutant of MakeResult: the digest is returned whether or not it was asked for.
MakeResultAlwaysSum(cfg, h, n) == [Sum |-> HashSum(h), BytesWritten |-> n]

\* flash, lines 217-220: the result; Sum is set only with a checksummer.
MakeResult(cfg, h, n) ==
    [Sum |-> IF cfg.Verify THEN HashSum(h) ELSE <<>>, BytesWritten |-> n]

\* Mutant of FlashReturn: the device handle is not closed.
FlashReturnLeak ==
    /\ pc = "flashReturn"
    /\ res' = [Sum |-> IF config.Verify THEN HashSum(hasher) ELSE <<>>,
               BytesWritten |-> total]
    /\ flashRet' = "nil"
    /\ input' = Close(input)
    /\ log' = log \o <<Ev("close_image", "flash")>>
    /\ pc' = "sync"
    /\ UNCHANGED <<config, result, potentials, chosen, detachables, answer, dev,
                   mounted, mnt, output, disk, hasher, total, copyErr, vhandle,
                   corrupted, vhasher, vread, vErr, verifyRet>>

\* flash, lines 215-222: the copy is over, whatever its error; the result is
\* built, the deferred Close of the device and of the image run, and flash
\* returns the result with a nil error.
FlashReturn ==
    /\ pc = "flashReturn"
    /\ res' = MakeResult(config, hasher, total)
    /\ flashRet' = "nil"
    /\ output' = "closed"
    /\ input' = Close(input)
    /\ log' = log \o <<Ev("close_device", "flash"), Ev("close_image", "flash")>>
    /\ pc' = "sync"
    /\ UNCHANGED <<config, result, potentials, chosen, detachables, answer, dev,
                   mounted, mnt, disk, hasher, total, copyErr, vhandle, corrupted, vhasher, vread, vErr, verifyRet>>

\* Mutant of ShouldVerify: the verifier runs when something was written.
ShouldVerifyWritten(r) == r.BytesWritten # 0

\* Flash, line 93: the verifier runs when the result carries a checksum.
ShouldVerify(r) == Len(r.Sum) # 0

\* Flash, lines 94-97: the value verify returned is dropped; Flash returns nil.
AfterVerify(verr) == "nil"

\* Mutant of Sync: syscall.Sync() is left out.
SyncOmitted ==
    /\ pc = "sync"
    /\ IF ShouldVerify(res)
       THEN /\ pc' = "verify"
            /\ UNCHANGED <<result, input, log>>
       ELSE ReturnFlash(input, "nil", <<>>)
    /\ UNCHANGED <<config, potentials, chosen, detachables, answer, dev, mounted,
                   mnt, output, disk, hasher, total, copyErr, res, flashRet,
                   vhandle, corrupted, vhasher, vread, vErr, verifyRet>>

\* Flash, lines 87-97 after flash returned: flash's error is nil, so the sync
\* is made; then the verifier is called, or Flash returns nil.
Sync ==
    /\ pc = "sync"
    /\ IF ShouldVerify(res)
       THEN /\ pc' = "verify"
            /\ log' = log \o <<Ev("sync", "")>>
            /\ UNCHANGED <<result, input>>
       ELSE ReturnFlash(input, "nil", <<Ev("sync", "")>>)
    /\ UNCHANGED <<config, potentials, chosen, detachables, answer, dev, mounted,
                   mnt, output, disk, hasher, total, copyErr, res, flashRet,
                   vhandle, corrupted, vhasher, vread, vErr, verifyRet>>

\* The medium: one byte of the device changes between the flash and the
\* read-back of the verifier.
Corrupt ==
    /\ pc = "verify"
    /\ corrupted = 0
    /\ \E i \in 1..DevSize :
          /\ corrupted' = i
          /\ disk' = [disk EXCEPT ![i] = 1 - @]
    /\ UNCHANGED <<config, pc, result, log, potentials, chosen, input, detachables,
                   answer, dev, mounted, mnt, output, hasher, total, copyErr, res,
                   flashRet, vhandle, vhasher, vread, vErr, verifyRet>>

\* verify, lines 227-237: the device is opened again; on failure verify
\* returns the error, which Flash drops.
VerifyOpen ==
    /\ pc = "verify"
    /\ \E ok \in BOOLEAN :
          IF ok
          THEN /\ vhandle' = "open"
               /\ vhasher' = HashInit
               /\ vread' = 0
               /\ pc' = "verifyCopy"
               /\ log' = log \o <<Ev("open_device", "verify")>>
               /\ UNCHANGED <<result, input, verifyRet>>
          ELSE /\ verifyRet' = "VerifyIOError"
               /\ ReturnFlash(input, AfterVerify("VerifyIOError"),
                              <<Ev("open_device", "verify")>>)
               /\ UNCHANGED <<vhandle, vhasher, vread>>
    /\ UNCHANGED <<config, potentials, chosen, detachables, answer, dev, mounted,
                   mnt, output, disk, hasher, total, copyErr, res, flashRet,
                   corrupted, vErr>>

\* Mutant of ReadLimit: the read-back runs to the end of the device.
ReadLimitDevice(r) == DevSize

\* verify, lines 234-237: the io.LimitedReader's N.
ReadLimit(r) == r.BytesWritten

Min(a, b) == IF a < b THEN a ELSE b

\* utils.CopyWithProgress(ctx, ui, checksummer, limitedInput), one chunk a
\* step: the limited reader gives at most what is left of its N and of the
\* device, then its end; a read may fail. The context is looked at before
\* each chunk.
VerifyStep ==
    /\ pc = "verifyCopy"
    /\ LET left == Min(ReadLimit(res) - vread, DevSize - vread)
       IN  \/ /\ left > 0
              /\ ~CtxDone(log)
              /\ \E n \in 1..Min(ChunkSize, left) :
                    /\ vhasher' = HashWrite(vhasher, SubSeq(disk, vread + 1, vread + n))
                    /\ vread' = vread + n
              /\ log' = Logged(log, Ev("read", ""))
              /\ UNCHANGED <<pc, vErr>>
           \/ /\ left > 0
              /\ vErr' = IF CtxDone(log) THEN "Canceled" ELSE "IOError"
              /\ pc' = "verifyReturn"
              /\ UNCHANGED <<vhasher, vread, log>>
           \/ /\ left <= 0
              /\ vErr' = "nil"
              /\ pc' = "verifyReturn"
              /\ UNCHANGED <<vhasher, vread, log>>
    /\ UNCHANGED <<config, result, potentials, chosen, input, detachables, answer,
                   dev, mounted, mnt, output, disk, hasher, total, copyErr, res,
                   flashRet, vhandle, corrupted, verifyRet>>

\* verify, lines 243-251: the copy's error, or the comparison of the digests.
Verdict(err, sum, r) ==
    IF err # "nil" THEN "VerifyIOError"
    ELSE IF ~BytesEqual(sum, r.Sum) THEN "ChecksumMismatch"
    ELSE "nil"

\* verify, lines 243-251, and Flash, lines 94-97: verify returns its verdict
\* (its deferred Close of the device runs) and Flash returns.
VerifyReturn ==
    /\ pc = "verifyReturn"
    /\ verifyRet' = Verdict(vErr, HashSum(vhasher), res)
    /\ vhandle' = "closed"
    /\ ReturnFlash(input, AfterVerify(Verdict(vErr, HashSum(vhasher), res)),
                   <<Ev("close_device", "verify")>>)
    /\ UNCHANGED <<config, potentials, chosen, detachables, answer, dev, mounted,
                   mnt, output, disk, hasher, total, copyErr, res, flashRet,
                   corrupted, vhasher, vread, vErr>>

Next ==
    \/ GetSource
    \/ GetDevice
    \/ Confirm
    \/ UnmountStep
    \/ UnmountDone
    \/ FlashOpen
    \/ CopyStep
    \/ FlashReturn
    \/ Sync
    \/ Corrupt
    \/ VerifyOpen
    \/ VerifyStep
    \/ VerifyReturn

Spec == Init /\ [][Next]_vars

\* The caller asks for cancellation (a signal) while a copy is running: once,
\* during the copy to the device or during the read-back.
RequestCancel ==
    /\ pc \in {"copy", "verifyCopy"}
    /\ \A i \in 1..Len(log) : log[i].op # "cancel"
    /\ log' = Append(log, Ev("cancel", pc))
    /\ UNCHANGED <<config, pc, result, potentials, chosen, input, detachables,
                   answer, dev, mounted, mnt, output, disk, hasher, total, copyErr,
                   res, flashRet, vhandle, corrupted, vhasher, vread, vErr, verifyRet>>

NextCancel == Next \/ RequestCancel

\* The run with a caller that may ask for cancellation.
SpecCancel == Init /\ [][NextCancel]_vars

\* ------------------------------------------------------------ properties

Ops(ops) == {i \in 1..Len(log) : log[i].op \in ops}

\* The indices of the log where the run acted on the target: an unmount, an
\* open of the device by the flash phase, a write.
Destructive ==
    {i \in 1..Len(log) :
        \/ log[i].op \in {"umount", "write"}
        \/ log[i] = Ev("open_device", "flash")}

\* The device was left alone: nothing unmounted, never opened, nothing written.
Untouched ==
    /\ Destructive = {}
    /\ Ops({"open_device", "read", "say_unmount"}) = {}
    /\ mounted = AllMountpoints
    /\ output = "none"
    /\ vhandle = "none"
    /\ disk = [i \in 1..DevSize |-> 0]

\* C1: a non-interactive run with no device configured that enumerates more
\* than one device ends right there with AmbiguousDevice, having unmounted
\* nothing, opened no device and written nothing.
C1_AmbiguousDeviceNoWrite ==
    (config.NotInteractive /\ config.Device = "" /\ Len(detachables) > 1)
        => /\ result = "AmbiguousDevice"
           /\ pc = "done"
           /\ dev = NoDevice
           /\ Untouched

C1_Witness ==
    /\ config.NotInteractive
    /\ config.Device = ""
    /\ Len(detachables) > 1
    /\ result = "AmbiguousDevice"

\* The state right after getDevice asked its menu question and got a line.
MenuAnswered ==
    /\ pc \in {"confirm", "done"}
    /\ DeviceAsks(config, detachables)
    /\ answer # NoAnswer

\* C2: in the interactive device menu over N devices, a typed line that is no
\* integer of [1, N] (0, N+1, ...) is rejected with an error result and yields
\* no device and no crash, and a typed k of [1, N] resolves to the device at
\* index k-1 of the enumeration.
C2_MenuSelection ==
    MenuAnswered =>
        LET n == Atoi(answer)
        IN  IF n.err = "nil" /\ n.val \in 1..Len(detachables)
            THEN result = "running" /\ dev = detachables[n.val]
            ELSE result \in {"InvalidSelection", "NumError"} /\ dev = NoDevice

\* C3: a run whose verifier failed ends with that failure; a digest mismatch
\* is reported as ChecksumMismatch.
C3_VerifyFailureIsTerminal ==
    (pc = "done" /\ verifyRet \notin {"none", "nil"})
        => /\ result # "nil"
           /\ (verifyRet = "ChecksumMismatch" => result = "ChecksumMismatch")

\* C4: when the copy to the device ended with an error, flash fails with
\* FlashError and returns no result, the run fails, and no verify pass starts.
C4_CopyFailureFailsFlash ==
    (copyErr \notin {"none", "nil"} /\ flashRet # "none")
        => /\ flashRet = "FlashError"
           /\ res = NoResult
           /\ result \notin {"nil"}
           /\ vhandle = "none"
           /\ verifyRet = "none"

\* The step of the run an event belongs to: 1 resolution and confirmation,
\* 2 unmount, 3 flash, 4 verify (0: the deferred close of the image).
Phase(e) ==
    CASE e.op \in {"ask", "say", "open_image", "enumerate"} -> 1
      [] e.op \in {"say_unmount", "umount"} -> 2
      [] e.op \in {"write", "sync"} -> 3
      [] e.op \in {"open_device", "close_device"} -> IF e.arg = "flash" THEN 3 ELSE 4
      [] e.op = "close_image" -> IF e.arg = "flash" THEN 3 ELSE 0
      [] e.op = "read" -> 4
      [] OTHER -> 0

\* C5: nothing destructive happens before the image source and exactly one
\* enumerated device are resolved, and the steps come in the order resolution,
\* unmount, flash, verify.
C5_ResolveBeforeDestroy ==
    /\ (Destructive # {} \/ pc \in {"unmount", "flash", "copy"})
          => /\ input.state # "none"
             /\ \E i \in 1..MaxDevices : dev = Device(i)
             /\ Ops({"open_image"}) # {}
             /\ Ops({"enumerate"}) # {}
    /\ \A i \in 1..Len(log) :
          /\ Phase(log[i]) = 0 => i = Len(log)
          /\ (i > 1 /\ Phase(log[i]) # 0) => Phase(log[i - 1]) <= Phase(log[i])
    /\ (Ops({"read"}) # {} \/ vhandle # "none") => config.Verify

C5_Witness ==
    /\ pc = "done"
    /\ Ops({"umount"}) # {}
    /\ Ops({"write"}) # {}
    /\ Ops({"read"}) # {}

\* C6: without verify, the result of flash carries no checksum and the
\* verifier never runs: the device is never opened again nor read back.
C6_NoVerifyNoChecksum ==
    ~config.Verify
        => /\ res.Sum = <<>>
           /\ pc \notin {"verify", "verifyCopy", "verifyReturn"}
           /\ vhandle = "none"
           /\ verifyRet = "none"
           /\ Ops({"read"}) = {}
           /\ \A i \in 1..Len(log) : log[i] # Ev("open_device", "verify")

C6_Witness ==
    /\ ~config.Verify
    /\ pc = "done"
    /\ result = "nil"
    /\ flashRet = "nil"
    /\ res.BytesWritten > 0

\* The written region reads back as written: the medium altered nothing, or a
\* byte beyond the bytes written.
HealthyRegion == corrupted = 0 \/ corrupted > res.BytesWritten

\* C7: with verify, after a copy that succeeded on a device that returns what
\* was written, a verify pass that read to its end read exactly BytesWritten
\* bytes from offset 0, its digest equals the result's checksum whatever lies
\* beyond, and verify succeeds.
C7_RoundTrip ==
    (config.Verify /\ copyErr = "nil" /\ HealthyRegion /\ vErr = "nil")
        => /\ vread = res.BytesWritten
           /\ BytesEqual(HashSum(vhasher), res.Sum)
           /\ HashSum(vhasher) = HashSum(hasher)
           /\ verifyRet \in {"none", "nil"}
           /\ (pc = "done" => verifyRet = "nil")

C7_Witness ==
    /\ config.Verify
    /\ copyErr = "nil"
    /\ res.BytesWritten > 0
    /\ corrupted > res.BytesWritten
    /\ vErr = "nil"
    /\ pc = "done"
    /\ verifyRet = "nil"

\* C8: a verify pass that read the bytes back fails with ChecksumMismatch
\* exactly when their digest differs from the result's checksum in some
\* position (so when one written byte was altered on the device), and
\* succeeds exactly when the digests agree in every position.
C8_MismatchDetected ==
    (verifyRet # "none" /\ vErr = "nil")
        => LET sum == HashSum(vhasher)
               same == /\ Len(sum) = Len(res.Sum)
                       /\ \A i \in 1..Len(sum) : sum[i] = res.Sum[i]
           IN  /\ verifyRet = "nil" <=> same
               /\ verifyRet = "ChecksumMismatch" <=> ~same
               /\ corrupted \in 1..res.BytesWritten => verifyRet = "ChecksumMismatch"

C8_Witness ==
    /\ verifyRet = "ChecksumMismatch"
    /\ vErr = "nil"
    /\ corrupted \in 1..res.BytesWritten

\* The mountpoints the run tried to unmount, in the order of the attempts.
RECURSIVE AttemptsFrom(_)
AttemptsFrom(i) ==
    IF i > Len(log) THEN <<>>
    ELSE IF log[i].op = "umount" THEN <<log[i].arg>> \o AttemptsFrom(i + 1)
    ELSE AttemptsFrom(i + 1)

Attempts == AttemptsFrom(1)

\* C9: unmount takes the mountpoints in listed order, announcing each attempt
\* before making it; at the first failure the run ends with that failure, the
\* mountpoints before it stay unmounted, the failing one and those after it
\* stay mounted and are not attempted, and the device is never opened.
C9_UnmountStopsAtFirstFailure ==
    /\ Len(Attempts) <= Len(dev.Mountpoints)
    /\ Attempts = SubSeq(dev.Mountpoints, 1, Len(Attempts))
    /\ \A i \in Ops({"umount"}) : i > 1 /\ log[i - 1] = Ev("say_unmount", log[i].arg)
    /\ Cardinality(Ops({"say_unmount"})) = Len(Attempts)
    /\ result = "UnmountError"
          => /\ pc = "done"
             /\ Len(Attempts) = mnt
             /\ \A j \in 1..Len(dev.Mountpoints) :
                   dev.Mountpoints[j] \in mounted <=> j >= mnt
             /\ Ops({"open_device", "write", "read"}) = {}
             /\ output = "none"
    /\ result # "UnmountError"
          => \A j \in 1..Len(Attempts) : Attempts[j] \notin mounted

C9_Witness ==
    /\ result = "UnmountError"
    /\ Len(dev.Mountpoints) = 3
    /\ mnt = 2
    /\ dev.Mountpoints[1] \notin mounted
    /\ dev.Mountpoints[3] \in mounted

\* C10: the flash phase and the verify phase never hold the device open
\* together; flash has closed its handle when it has returned, verify has
\* closed its own when it has returned, verify opens the device only after
\* flash closed it, and no handle is open when Flash has returned.
C10_HandleExclusive ==
    /\ ~(output = "open" /\ vhandle = "open")
    /\ flashRet # "none" => output # "open"
    /\ verifyRet # "none" => vhandle # "open"
    /\ vhandle # "none" => output = "closed"
    /\ pc = "done" => (output # "open" /\ vhandle # "open")
    /\ output = "open" <=> pc \in {"copy", "flashReturn"}
    /\ vhandle = "open" <=> pc \in {"verifyCopy", "verifyReturn"}

C10_Witness ==
    /\ pc = "done"
    /\ output = "closed"
    /\ vhandle = "closed"
    /\ copyErr # "nil"

\* C11: once cancellation was requested during the copy, no further chunk is
\* written (nor read back after a request during the read-back), and the run
\* ends as a failure carrying the bytes written so far.
C11_CancelStopsCopy ==
    /\ \A i \in 1..Len(log) : \A j \in i..Len(log) :
          log[i].op = "cancel" => log[j] # Ev(IF log[i].arg = "copy" THEN "write" ELSE "read", "")
    /\ (pc = "done" /\ \E i \in 1..Len(log) : log[i].op = "cancel")
          => result \notin {"nil", "running"}
    /\ (flashRet # "none" /\ \E i \in 1..Len(log) : log[i] = Ev("cancel", "copy"))
          => copyErr = "Canceled"

\* C12 as stated: the sync is forced before the flash operation returns, so
\* once flash has returned its result the sync has been made.
C12_SyncBeforeFlashReturns ==
    flashRet = "nil" => Ops({"sync"}) # {}

\* C12, amended: the sync is made by Flash once flash has returned (the device
\* handle closed), exactly once, after the last write and before the verifier
\* opens or reads the device; no run ends or verifies after a flash without it.
C12_SyncBetweenWriteAndRead ==
    /\ Cardinality(Ops({"sync"})) <= 1
    /\ \A i \in Ops({"sync"}) :
          /\ flashRet = "nil"
          /\ \A j \in Ops({"write"}) : j < i
          /\ \E j \in 1..(i - 1) : log[j] = Ev("close_device", "flash")
          /\ \A k \in 1..Len(log) :
                (log[k].op = "read" \/ log[k] = Ev("open_device", "verify")) => i < k
    /\ (flashRet = "nil" /\ pc # "sync") => Ops({"sync"}) # {}
    /\ (Ops({"read"}) # {} \/ vhandle # "none") => Ops({"sync"}) # {}

C12_Witness ==
    /\ pc = "done"
    /\ Ops({"write"}) # {}
    /\ Ops({"sync"}) # {}
    /\ Ops({"read"}) # {}

\* The state right after Flash asked "Are you sure?" and got a line; `answer`
\* holds it lower-cased and trimmed.
ConfirmAnswered ==
    /\ pc \in {"unmount", "done"}
    /\ answer # NoAnswer
    /\ \E i \in 1..Len(log) :
          /\ log[i] = Ev("ask", "confirm")
          /\ \A j \in (i + 1)..Len(log) : log[j].op = "close_image"

\* The answers that decline.
Declines == {<<"n">>, <<"n", "o">>, <<"y", "e", "s", "s">>, <<"e", "s">>}

\* The errors of source selection, device selection and confirmation.
SelectionErrors ==
    {"NoImageFound", "StatError", "OpenImageError", "InvalidSelection", "NumError",
     "AskError", "NoDevicesFound", "EnumError", "DeviceNotFound", "AmbiguousDevice"}

\* C13: declining the confirmation ends the run with UserCanceled, and a run
\* that ended with UserCanceled or with a source- or device-selection error
\* unmounted nothing, never opened the device and wrote nothing.
C13_CancelHasNoSideEffect ==
    /\ (ConfirmAnswered /\ answer \in Declines)
          => (result = "UserCanceled" /\ pc = "done")
    /\ result \in ({"UserCanceled"} \cup SelectionErrors)
          => (pc = "done" /\ Untouched)

C13_Witness ==
    /\ ConfirmAnswered
    /\ answer = <<"n", "o">>
    /\ result = "UserCanceled"
    /\ Len(dev.Mountpoints) > 0

\* The state right after getSource scanned the directory.
Scanned == pc \in {"getDevice", "done"} /\ potentials # <<>>

\* C14: non-interactive, no image configured, a non-empty candidate list whose
\* files all have a modification time: the file selected is the first, in scan
\* order, of those with the greatest modification time, and nothing is asked.
C14_MostRecentFirstWins ==
    (Scanned /\ config.NotInteractive /\ config.Image = ""
        /\ \A i \in 1..Len(potentials) : potentials[i].statOk)
        => /\ \E k \in 1..Len(potentials) :
                 /\ chosen = potentials[k].name
                 /\ \A j \in 1..Len(potentials) :
                       potentials[j].ModTime <= potentials[k].ModTime
                 /\ \A j \in 1..(k - 1) :
                       potentials[j].ModTime < potentials[k].ModTime
           /\ result \in {"running", "OpenImageError"}
           /\ Ops({"ask"}) = {}

C14_Witness ==
    /\ Scanned
    /\ config.NotInteractive
    /\ config.Image = ""
    /\ Len(potentials) = 2
    /\ potentials[1].statOk /\ potentials[2].statOk
    /\ potentials[1].ModTime = potentials[2].ModTime
    /\ chosen = potentials[1].name
    /\ pc = "getDevice"

\* The state right after Choose asked its menu question and got a line.
ImageAnswered ==
    /\ Scanned
    /\ SourceAsks(config, potentials)
    /\ answer # NoAnswer

\* C15: in the interactive image menu over N files, a typed line that is no
\* integer of [1, N] (0, N+1, ...) fails with a selection error and no image
\* is opened, and a typed k of [1, N] selects the file at index k-1 of the scan.
C15_ImageMenuSelection ==
    ImageAnswered =>
        LET n == Atoi(answer)
        IN  IF n.err = "nil" /\ n.val \in 1..Len(potentials)
            THEN /\ chosen = potentials[n.val].name
                 /\ result \in {"running", "OpenImageError"}
            ELSE /\ result \in {"InvalidSelection", "NumError"}
                 /\ chosen = ""
                 /\ input.state = "none"
                 /\ Ops({"open_image"}) = {}

C15_Witness ==
    /\ ImageAnswered
    /\ answer = Typed(Len(potentials) + 1)
    /\ result = "InvalidSelection"

\* The state right after getDevice enumerated the devices without an error.
Enumerated ==
    /\ pc \in {"confirm", "done"}
    /\ result # "EnumError"
    /\ \E i \in 1..Len(log) :
          /\ log[i].op = "enumerate"
          /\ \A j \in (i + 1)..Len(log) :
                log[j].op = "close_image" \/ log[j] = Ev("ask", "device")

\* C16: with config.Device set, in both modes, device resolution fails with
\* NoDevicesFound on an empty enumeration, else returns the enumerated device
\* whose path is config.Device, else fails with DeviceNotFound; it never asks.
C16_ConfiguredDevice ==
    (Enumerated /\ config.Device # "")
        => /\ \A i \in 1..Len(log) : log[i] # Ev("ask", "device")
           /\ IF detachables = <<>>
              THEN result = "NoDevicesFound" /\ dev = NoDevice
              ELSE IF \E i \in 1..Len(detachables) : detachables[i].Device = config.Device
              THEN /\ result = "running"
                   /\ dev.Device = config.Device
                   /\ \E i \in 1..Len(detachables) : detachables[i] = dev
              ELSE result = "DeviceNotFound" /\ dev = NoDevice

C16_Witness ==
    /\ Enumerated
    /\ ~config.NotInteractive
    /\ Len(detachables) >= 2
    /\ detachables[2].Device = config.Device
    /\ dev = detachables[2]

\* C17: a non-interactive run never calls ui.Ask, neither to select the image
\* nor to select the device nor to confirm.
C17_NonInteractiveNeverAsks ==
    config.NotInteractive
        => /\ Ops({"ask"}) = {}
           /\ (Scanned /\ result = "running") => chosen # ""
           /\ (Enumerated /\ result = "running" /\ config.Device = "")
                 => (Len(detachables) = 1 /\ dev = detachables[1])

C17_Witness ==
    /\ config.NotInteractive
    /\ config.Image = ""
    /\ config.Device = ""
    /\ pc = "done"
    /\ result = "nil"
    /\ Ops({"write"}) # {}

\* C18: once flash returned a result, its checksum is non-empty exactly when
\* verify was requested, also for an image of no bytes, and a run with verify
\* whose flash returned a result calls the verifier.
C18_ChecksumGatesVerify ==
    flashRet = "nil"
        => /\ Len(res.Sum) # 0 <=> config.Verify
           /\ (config.Verify /\ pc = "done") => verifyRet # "none"
           /\ (config.Verify /\ pc \notin {"sync", "done"})
                 => pc \in {"verify", "verifyCopy", "verifyReturn"}

C18_Witness ==
    /\ config.Verify
    /\ flashRet = "nil"
    /\ copyErr = "nil"
    /\ res.BytesWritten = 0
    /\ pc = "done"
    /\ verifyRet = "nil"

\* C19: in an interactive run the run goes on to unmount and write only on a
\* non-empty affirmative answer; an empty or blank answer cancels the run and
\* leaves the device untouched.
C19_EmptyAnswerDeclines ==
    ConfirmAnswered
        => /\ pc = "unmount" => answer \in {<<"y">>, <<"y", "e">>, <<"y", "e", "s">>}
           /\ answer = <<>> => (result = "UserCanceled" /\ pc = "done" /\ Untouched)

\* C20: an image stream that was opened is closed exactly once when Flash has
\* returned, and never closed twice.
C20_ImageClosedOnce ==
    /\ input.closes <= 1
    /\ (pc = "done" /\ input.state # "none")
          => (input.state = "closed" /\ input.closes = 1)

====
